---- MODULE Spec2Model ----
(***************************************************************************)
(* A model of heudiconv/heuristics/bids_longitudinal.py: the temporal      *)
(* orderer (sort_seqinfo_by_series_date_time), the task-name extractor     *)
(* (extract_task_name), the classification cascade (infotodict) and the    *)
(* cleanup pass (clean_up_unneeded_tags_from_info).                        *)
(*                                                                         *)
(* Python strings are modelled as sequences of one-character strings, so   *)
(* that substring search, split, replace and lexicographic comparison are  *)
(* computed as Python computes them.  A Python exception is modelled as a  *)
(* result whose exc field names the exception.                             *)
(***************************************************************************)
EXTENDS Integers, Sequences, FiniteSets, TLC

VARIABLES
    pc,          \* position of the call being modelled
    prot_name,   \* extract_task_name: its argument
    task_name,   \* extract_task_name: [exc, val], its outcome
    seqinfo_in,  \* the seqinfo list handed to sort_seqinfo_.../infotodict
    seqinfo,     \* the sorted seqinfo (result of sort_seqinfo_by_series_date_time)
    idx,         \* infotodict: index of the record of the for loop (1-based)
    info,        \* infotodict: the info dict (insertion-ordered)
    run_numbers, \* infotodict: dict task -> run number
    exc,         \* infotodict: the exception that ended the pass ("" if none)
    fired,       \* infotodict: per record of the loop, the rules that fired
    passes       \* cleanup: <<M, cleanup(M), cleanup(cleanup(M)), ...>>

vars == <<pc, prot_name, task_name, seqinfo_in, seqinfo, idx, info,
          run_numbers, exc, fired, passes>>

----------------------------------------------------------------------------
(* Bounds of the model *)

\* longest seqinfo list handed to sort_seqinfo_by_series_date_time
MaxSeq == 3
\* longest seqinfo list handed to infotodict
MaxRecs == 2
\* protocol names given to extract_task_name are made of at most this many fragments
MaxTaskFrags == 3
\* most keys of a map handed to clean_up_unneeded_tags_from_info
MaxKeys == 2
\* key templates of those maps are made of at most this many fragments
MaxTplFrags == 2
\* number of cleanup passes applied in a row
MaxPasses == 2

----------------------------------------------------------------------------
(* Python str operations on sequences of characters *)

\* the characters the model uses, in code-point order (Python compares
\* strings by code point)
CodePoints ==
    <<" ", "-", "/", "0", "1", "2", "3", "4", "5", "6", "7", "8", "9", ":",
      "A", "B", "C", "D", "E", "F", "G", "H", "I", "J", "K", "L", "M", "N",
      "O", "P", "Q", "R", "S", "T", "U", "V", "W", "X", "Y", "Z", "_",
      "a", "b", "c", "d", "e", "f", "g", "h", "i", "j", "k", "l", "m", "n",
      "o", "p", "q", "r", "s", "t", "u", "v", "w", "x", "y", "z", "{", "}">>

Ord(c) == CHOOSE i \in 1..Len(CodePoints) : CodePoints[i] = c

\* a < b for Python strings
StrLess(a, b) ==
    \/ /\ Len(a) < Len(b)
       /\ SubSeq(b, 1, Len(a)) = a
    \/ \E i \in 1..Len(a) :
          /\ i <= Len(b)
          /\ SubSeq(a, 1, i - 1) = SubSeq(b, 1, i - 1)
          /\ Ord(a[i]) < Ord(b[i])

\* sub in s
Contains(sub, s) ==
    \E i \in 1..(Len(s) - Len(sub) + 1) : SubSeq(s, i, i + Len(sub) - 1) = sub

\* s.find(sub) + 1: the first place of sub in s, 0 if there is none
Find(s, sub) ==
    IF Contains(sub, s)
    THEN CHOOSE i \in 1..(Len(s) - Len(sub) + 1) :
            /\ SubSeq(s, i, i + Len(sub) - 1) = sub
            /\ \A j \in 1..(i - 1) : SubSeq(s, j, j + Len(sub) - 1) # sub
    ELSE 0

\* s.split(sep), sep non-empty: the pieces between the non-overlapping
\* occurrences of sep, found left to right
RECURSIVE Split(_, _)
Split(s, sep) ==
    LET i == Find(s, sep)
    IN  IF i = 0
        THEN <<s>>
        ELSE <<SubSeq(s, 1, i - 1)>>
             \o Split(SubSeq(s, i + Len(sep), Len(s)), sep)

RECURSIVE Join(_, _)
Join(pieces, new) ==
    IF Len(pieces) = 1
    THEN pieces[1]
    ELSE pieces[1] \o new \o Join(Tail(pieces), new)

\* s.replace(old, new), old non-empty
Replace(s, old, new) == Join(Split(s, old), new)

\* s.endswith(suffix)
EndsWith(s, suffix) ==
    /\ Len(suffix) <= Len(s)
    /\ SubSeq(s, Len(s) - Len(suffix) + 1, Len(s)) = suffix

LowerChar(c) ==
    IF Ord(c) >= Ord("A") /\ Ord(c) <= Ord("Z")
    THEN CodePoints[Ord(c) - Ord("A") + Ord("a")]
    ELSE c

\* s.lower()
Lower(s) == [i \in 1..Len(s) |-> LowerChar(s[i])]

Digit(n) == CodePoints[Ord("0") + n]

\* str(n), n >= 0
RECURSIVE Str(_)
Str(n) == IF n < 10 THEN <<Digit(n)>> ELSE Str(n \div 10) \o <<Digit(n % 10)>>

\* '%02d' % n, n >= 0
Fmt02d(n) == IF n < 10 THEN <<"0", Digit(n)>> ELSE Str(n)

\* all concatenations of 1..n fragments of F
RECURSIVE Concats(_, _)
Concats(F, n) ==
    IF n = 0
    THEN {}
    ELSE F \cup {a \o b : a \in Concats(F, n - 1), b \in F}

\* all lists of 0..n elements of S
RECURSIVE Lists(_, _)
Lists(S, n) ==
    IF n = 0
    THEN {<<>>}
    ELSE Lists(S, n - 1) \cup {Append(l, x) : l \in Lists(S, n - 1), x \in S}

----------------------------------------------------------------------------
(* extract_task_name *)

s_bold == <<" ", "b", "o", "l", "d">>
s_lo == <<"l", "o">>
s_loc == <<"l", "o", "c">>
s_task == <<"t", "a", "s", "k">>
s_TASK == <<"T", "A", "S", "K">>

known_tasks ==
    << <<"r", "e", "s", "t">>,
       <<"f", "a", "c", "e">>,
       <<"c", "o", "n", "f", "l", "i", "c", "t">>,
       <<"g", "a", "m", "b", "l", "e">>,
       <<"f", "i", "x">>,
       <<"f", "i", "l", "m", "s">>,
       <<"i", "n", "s", "c", "a", "p", "e", "s">>,
       <<"l", "o", " ", "b", "o", "l", "d">>,
       <<"l", "o", "c", " ", "b", "o", "l", "d">>,
       <<"m", "t", " ", "b", "o", "l", "d">>,
       <<"r", "e", "t", " ", "b", "o", "l", "d">> >>

\* the for loop over known_tasks: the first known task found in the
\* protocol name, cut at ' bold'; '' when none is found
KnownTask(p) ==
    IF \E i \in 1..Len(known_tasks) : Contains(known_tasks[i], p)
    THEN LET i == CHOOSE i \in 1..Len(known_tasks) :
                     /\ Contains(known_tasks[i], p)
                     /\ \A j \in 1..(i - 1) : ~Contains(known_tasks[j], p)
         IN  Split(known_tasks[i], s_bold)[1]
    ELSE <<>>

\* the text after the keyword "task": [exc, val]
AfterTask(p) ==
    LET t0 == Split(p, s_task)[2]
    IN  IF t0 = <<>>
        THEN [exc |-> "IndexError", val |-> <<>>]    \* task_name[0] of ''
        ELSE LET t1 == IF t0[1] = "-" \/ t0[1] = "_" THEN Tail(t0) ELSE t0
                 t2 == Split(t1, <<"_">>)[1]
                 t3 == Split(t2, <<"-">>)[1]
             IN  [exc |-> "", val |-> Replace(t3, <<" ">>, <<>>)]

\* extract_task_name(prot_name): [exc, val]
extract_task_name(name) ==
    LET p == Lower(name)
        k == KnownTask(p)
        t == IF k = s_lo THEN s_loc ELSE k
    IN  IF t # <<>>
        THEN [exc |-> "", val |-> t]
        ELSE IF Contains(s_task, p)
             THEN AfterTask(p)
             ELSE [exc |-> "", val |-> s_TASK]

\* the fragments protocol names are made of
TaskFrags ==
    { s_task, <<"T", "a", "s", "k">>, <<"-">>, <<"_">>, <<" ">>, <<"a">>,
      <<"R", "E", "S", "T">>, <<"l", "o", " ", "b", "o", "l", "d">>,
      <<"n", "b", "a", "c", "k">> }

ProtNames == Concats(TaskFrags, MaxTaskFrags)

NoTask == [exc |-> "", val |-> <<>>]

\* the call of extract_task_name
ExtractTaskName ==
    /\ pc = "task_call"
    /\ task_name' = extract_task_name(prot_name)
    /\ pc' = IF task_name'.exc = "" THEN "task_returned" ELSE "task_raised"
    /\ UNCHANGED <<prot_name, seqinfo_in, seqinfo, idx, info, run_numbers,
                   exc, fired, passes>>

InitTask ==
    /\ pc = "task_call"
    /\ prot_name \in ProtNames
    /\ task_name = NoTask
    /\ seqinfo_in = <<>>
    /\ seqinfo = <<>>
    /\ idx = 0
    /\ info = <<>>
    /\ run_numbers = <<>>
    /\ exc = ""
    /\ fired = <<>>
    /\ passes = <<>>

NextTask == ExtractTaskName

SpecTask == InitTask /\ [][NextTask]_vars

----------------------------------------------------------------------------
(* seqinfo records and sort_seqinfo_by_series_date_time *)

\* one seqinfo entry (only the fields the heuristic reads)
SeqInfo(id, date, time, uid, prot, desc, seqname, itype, dim4) ==
    [series_id |-> id, date |-> date, time |-> time, series_uid |-> uid,
     protocol_name |-> prot, series_description |-> desc,
     sequence_name |-> seqname, image_type |-> itype, dim4 |-> dim4]

\* "s.date and s.time": both are there and non-empty
HasDateTimeNoTime(s) == s.date # <<>>

HasDateTime(s) == s.date # <<>> /\ s.time # <<>>

\* list(S) for a set S, in some order
RECURSIVE SetToSeq(_)
SetToSeq(S) ==
    IF S = {}
    THEN <<>>
    ELSE LET x == CHOOSE x \in S : TRUE
         IN  <<x>> \o SetToSeq(S \ {x})

\* l with x put before its first element greater than x
RECURSIVE Insert(_, _)
Insert(l, x) ==
    IF l = <<>>
    THEN <<x>>
    ELSE IF StrLess(x, l[1])
         THEN <<x>> \o l
         ELSE <<l[1]>> \o Insert(Tail(l), x)

RECURSIVE sortedAsc(_)
sortedAsc(l) == IF l = <<>> THEN <<>> ELSE Insert(sortedAsc(Tail(l)), l[1])

Reverse(l) == [i \in 1..Len(l) |-> l[Len(l) + 1 - i]]

sortedReversed(l) == Reverse(sortedAsc(l))

\* sorted(l) for a list of strings
sorted(l) == sortedAsc(l)

\* set([s.date + s.time for s in seqinfo if s.date and s.time])
dateTimes(sq) ==
    {sq[i].date \o sq[i].time : i \in {j \in 1..Len(sq) : HasDateTime(sq[j])}}

\* the series with date and time dt, in seqinfo's order
dTseries(sq, dt) ==
    LET Is(ss) == HasDateTime(ss) /\ ss.date \o ss.time = dt
    IN  SelectSeq(sq, Is)

\* [s.series_uid for s in dTseries if s.series_uid]
Uids(dts) ==
    LET Has(ss) == ss.series_uid # <<>>
        with == SelectSeq(dts, Has)
    IN  [i \in 1..Len(with) |-> with[i].series_uid]

\* for sid in sids: for ss in dTseries: if ss.series_uid == sid: append
RECURSIVE AppendByUid(_, _, _)
AppendByUid(acc, sids, dts) ==
    IF sids = <<>>
    THEN acc
    ELSE LET Is(ss) == ss.series_uid = sids[1]
         IN  AppendByUid(acc \o SelectSeq(dts, Is), Tail(sids), dts)

InList(x, l) == \E i \in 1..Len(l) : l[i] = x

\* for ss in l: if ss not in acc: acc.append(ss)
RECURSIVE AppendMissing(_, _)
AppendMissing(acc, l) ==
    IF l = <<>>
    THEN acc
    ELSE AppendMissing(IF InList(l[1], acc) THEN acc ELSE Append(acc, l[1]),
                       Tail(l))

\* the body of "for dt in sorted(dateTimes)"
RECURSIVE SortGroups(_, _, _)
SortGroups(acc, dts, sq) ==
    IF dts = <<>>
    THEN acc
    ELSE LET g == dTseries(sq, dts[1])
             byUid == AppendByUid(acc, sorted(Uids(g)), g)
         IN  SortGroups(AppendMissing(byUid, g), Tail(dts), sq)

sort_seqinfo_by_series_date_time(sq) ==
    AppendMissing(SortGroups(<<>>, sorted(SetToSeq(dateTimes(sq))), sq), sq)

\* the fields the sort does not read, of the records it is checked on
s_x == <<"x">>
it_M == <<"ORIGINAL", "PRIMARY", "M">>

SortTimes == {<<"1">>, <<"2">>}
SortUids == {<<>>, <<"A">>, <<"B">>}
SortIds == {1, 2}

\* records that have both date and time
SortComplete ==
    {SeqInfo(id, <<"1">>, t, u, s_x, s_x, s_x, it_M, 1) :
        id \in SortIds, t \in SortTimes, u \in SortUids}

\* records that lack the date, the time or both (their uid is never read)
SortIncomplete ==
    {SeqInfo(id, dt[1], dt[2], <<>>, s_x, s_x, s_x, it_M, 1) :
        id \in SortIds,
        dt \in {<< <<>>, <<>> >>, << <<"1">>, <<>> >>, << <<>>, <<"1">> >>}}

SortPool == SortComplete \cup SortIncomplete

\* the call of sort_seqinfo_by_series_date_time
SortSeqinfo ==
    /\ pc = "sort_call"
    /\ seqinfo' = sort_seqinfo_by_series_date_time(seqinfo_in)
    /\ pc' = "sort_done"
    /\ UNCHANGED <<prot_name, task_name, seqinfo_in, idx, info, run_numbers,
                   exc, fired, passes>>

InitSort ==
    /\ pc = "sort_call"
    /\ seqinfo_in \in Lists(SortPool, MaxSeq)
    /\ seqinfo = <<>>
    /\ prot_name = <<>>
    /\ task_name = NoTask
    /\ idx = 0
    /\ info = <<>>
    /\ run_numbers = <<>>
    /\ exc = ""
    /\ fired = <<>>
    /\ passes = <<>>

NextSort == SortSeqinfo

SpecSort == InitSort /\ [][NextSort]_vars

----------------------------------------------------------------------------
(* the info dict, add_series_to_info_dict, clean_up_unneeded_tags_from_info *)

(* A Python dict is a sequence of [key, val] entries with distinct keys, in *)
(* insertion order.  A key is the tuple create_key returns:                 *)
(* (template, outtype, annotation_classes).                                 *)

s_run_item == <<"_", "r", "u", "n", "-", "{", "i", "t", "e", "m", ":", "0", "2", "d", "}">>
s_run_01 == <<"_", "r", "u", "n", "-", "0", "1">>
s_run_02 == <<"_", "r", "u", "n", "-", "0", "2">>

\* k in d
HasKey(d, k) == \E i \in 1..Len(d) : d[i].key = k

\* d[k], for a key of d
GetItem(d, k) == d[CHOOSE i \in 1..Len(d) : d[i].key = k].val

\* d[k] = v: a key of d keeps its place, a new key goes last
SetItem(d, k, v) ==
    IF HasKey(d, k)
    THEN [i \in 1..Len(d) |-> IF d[i].key = k THEN [key |-> k, val |-> v] ELSE d[i]]
    ELSE Append(d, [key |-> k, val |-> v])

\* d without its key k (the dict after d.pop(k))
Pop(d, k) ==
    LET Other(e) == e.key # k
    IN  SelectSeq(d, Other)

\* [k for k in d.keys()]
KeysOf(d) == [i \in 1..Len(d) |-> d[i].key]

\* the dict read as a mapping, whatever the order of its entries
AsMapping(d) == {<<d[i].key, d[i].val>> : i \in 1..Len(d)}

\* add_series_to_info_dict(series_id, mykey, info, acq=''), mykey # ''
add_series_to_info_dict(series_id, mykey, d, acq) ==
    LET entry == IF acq = <<>>
                 THEN [item |-> series_id]
                 ELSE [item |-> series_id, acq |-> acq]
    IN  IF HasKey(d, mykey)
        THEN SetItem(d, mykey, Append(GetItem(d, mykey), entry))
        ELSE SetItem(d, mykey, <<entry>>)

\* info[tuple(new_k)] = info.pop(k), new_k being k with old erased from its
\* template
RenameKey(d, k, old) ==
    LET new_k == [k EXCEPT !.template = Replace(@, old, <<>>)]
    IN  SetItem(Pop(d, k), new_k, GetItem(d, k))

\* one iteration of "for k in orig_keys"
CleanUpKey(d, k) ==
    IF Len(GetItem(d, k)) = 1 /\ Contains(s_run_item, k.template)
    THEN RenameKey(d, k, s_run_item)
    ELSE IF Contains(s_run_01, k.template)
         THEN LET run2 == Replace(k.template, s_run_01, s_run_02)
              IN  IF ~(\E i \in 1..Len(d) : d[i].key.template = run2)
                  THEN RenameKey(d, k, s_run_01)
                  ELSE d
         ELSE d

RECURSIVE CleanUpKeys(_, _)
CleanUpKeys(d, orig_keys) ==
    IF orig_keys = <<>>
    THEN d
    ELSE CleanUpKeys(CleanUpKey(d, orig_keys[1]), Tail(orig_keys))

clean_up_unneeded_tags_from_info(d) == CleanUpKeys(d, KeysOf(d))

\* the maps clean_up_unneeded_tags_from_info is checked on
TplFrags == {<<"a">>, s_run_01, s_run_02, s_run_item}

Templates == Concats(TplFrags, MaxTplFrags)

OutTypes == {<<"nii.gz", "dicom">>, <<"dicom">>}

CleanKeys ==
    {[template |-> t, outtype |-> o, annotation_classes |-> "None"] :
        t \in Templates, o \in OutTypes}

CleanVals == Lists({[item |-> 1], [item |-> 2]}, 2)

CleanEntries == {[key |-> k, val |-> v] : k \in CleanKeys, v \in CleanVals}

DistinctKeys(d) == \A i, j \in 1..Len(d) : d[i].key = d[j].key => i = j

CleanMaps == {d \in Lists(CleanEntries, MaxKeys) : DistinctKeys(d)}

\* one call of clean_up_unneeded_tags_from_info, on the map the last call left
CleanUp ==
    /\ pc = "cleanup_call"
    /\ Len(passes) <= MaxPasses
    /\ passes' = Append(passes,
                        clean_up_unneeded_tags_from_info(passes[Len(passes)]))
    /\ UNCHANGED <<pc, prot_name, task_name, seqinfo_in, seqinfo, idx, info,
                   run_numbers, exc, fired>>

InitCleanup ==
    /\ pc = "cleanup_call"
    /\ \E m \in CleanMaps : passes = <<m>>
    /\ prot_name = <<>>
    /\ task_name = NoTask
    /\ seqinfo_in = <<>>
    /\ seqinfo = <<>>
    /\ idx = 0
    /\ info = <<>>
    /\ run_numbers = <<>>
    /\ exc = ""
    /\ fired = <<>>

NextCleanup == CleanUp

SpecCleanup == InitCleanup /\ [][NextCleanup]_vars

----------------------------------------------------------------------------
(* infotodict *)

\* create_key(subdir, file_suffix, outtype): os.path.join of the prefix '',
\* "{bids_subject_session_dir}", subdir and
\* "{bids_subject_session_prefix}_<file_suffix>".  The two placeholders
\* and the subdir are one symbol each: nothing searches inside them.
create_key(subdir, file_suffix, outtype) ==
    [template |-> <<"{bids_subject_session_dir}/", subdir,
                    "/{bids_subject_session_prefix}", "_">> \o file_suffix,
     outtype |-> outtype,
     annotation_classes |-> "None"]

nii_dicom == <<"nii.gz", "dicom">>
dicom_only == <<"dicom">>

\* the file suffixes of the static keys
sfx_t1 == <<"a", "c", "q", "-", "{", "a", "c", "q", "}", "_", "r", "u", "n", "-", "{", "i", "t", "e", "m", ":", "0", "2", "d", "}", "_", "T", "1", "w">>
sfx_t2 == <<"a", "c", "q", "-", "{", "a", "c", "q", "}", "_", "r", "u", "n", "-", "{", "i", "t", "e", "m", ":", "0", "2", "d", "}", "_", "T", "2", "w">>
sfx_inplaneT1 == <<"r", "u", "n", "-", "{", "i", "t", "e", "m", ":", "0", "2", "d", "}", "_", "i", "n", "p", "l", "a", "n", "e", "T", "1">>
sfx_pd_bias_body == <<"a", "c", "q", "-", "b", "i", "a", "s", "B", "o", "d", "y", "_", "r", "u", "n", "-", "{", "i", "t", "e", "m", ":", "0", "2", "d", "}", "_", "P", "D">>
sfx_pd_bias_receive == <<"a", "c", "q", "-", "b", "i", "a", "s", "R", "e", "c", "e", "i", "v", "e", "_", "r", "u", "n", "-", "{", "i", "t", "e", "m", ":", "0", "2", "d", "}", "_", "P", "D">>
sfx_ir == <<"i", "n", "v", "-", "{", "i", "t", "e", "m", ":", "0", "2", "d", "}", "_", "I", "R", "T", "1">>
sfx_variable_fa == <<"f", "l", "i", "p", "-", "{", "i", "t", "e", "m", ":", "0", "2", "d", "}", "_", "V", "F", "A">>
sfx_dwi == <<"a", "c", "q", "-", "{", "a", "c", "q", "}", "_", "r", "u", "n", "-", "{", "i", "t", "e", "m", ":", "0", "2", "d", "}", "_", "d", "w", "i">>
sfx_dwi_sbref == <<"a", "c", "q", "-", "{", "a", "c", "q", "}", "_", "r", "u", "n", "-", "{", "i", "t", "e", "m", ":", "0", "2", "d", "}", "_", "s", "b", "r", "e", "f">>
sfx_fmap_gre_mag == <<"a", "c", "q", "-", "G", "R", "E", "_", "r", "u", "n", "-", "{", "i", "t", "e", "m", ":", "0", "2", "d", "}", "_", "m", "a", "g", "n", "i", "t", "u", "d", "e">>
sfx_fmap_gre_phase == <<"a", "c", "q", "-", "G", "R", "E", "_", "r", "u", "n", "-", "{", "i", "t", "e", "m", ":", "0", "2", "d", "}", "_", "p", "h", "a", "s", "e", "d", "i", "f", "f">>
sfx_t2_scout == <<"a", "c", "q", "-", "S", "c", "o", "u", "t", "_", "r", "u", "n", "-", "{", "i", "t", "e", "m", ":", "0", "2", "d", "}", "_", "T", "2", "w">>
sfx_screen_save == <<"r", "u", "n", "-", "{", "i", "t", "e", "m", ":", "0", "2", "d", "}", "_", "s", "c", "r", "e", "e", "n", "s", "a", "v", "e">>

t1 == create_key("anat", sfx_t1, nii_dicom)
t2 == create_key("anat", sfx_t2, nii_dicom)
inplaneT1 == create_key("anat", sfx_inplaneT1, nii_dicom)
pd_bias_body == create_key("anat", sfx_pd_bias_body, nii_dicom)
pd_bias_receive == create_key("anat", sfx_pd_bias_receive, nii_dicom)
ir == create_key("anat", sfx_ir, nii_dicom)
variable_fa == create_key("anat", sfx_variable_fa, nii_dicom)
dwi == create_key("dwi", sfx_dwi, nii_dicom)
dwi_sbref == create_key("dwi", sfx_dwi_sbref, nii_dicom)
fmap_gre_mag == create_key("fmap", sfx_fmap_gre_mag, nii_dicom)
fmap_gre_phase == create_key("fmap", sfx_fmap_gre_phase, nii_dicom)
t2_scout == create_key("anat", sfx_t2_scout, dicom_only)
screen_save == create_key("misc", sfx_screen_save, dicom_only)

\* info = {t1: [], t2: [], ...}
InitialInfo ==
    LET ks == <<t1, t2, inplaneT1, pd_bias_body, pd_bias_receive, dwi,
                dwi_sbref, fmap_gre_mag, fmap_gre_phase, t2_scout,
                screen_save>>
    IN  [i \in 1..Len(ks) |-> [key |-> ks[i], val |-> <<>>]]

\* the literals the cascade looks for
s_fl == <<"f", "l">>
s_t1 == <<"t", "1">>
s_mp == <<"m", "p">>
s_rage == <<"r", "a", "g", "e">>
s_mpr == <<"m", "p", "r">>
s_efgre3d == <<"e", "f", "g", "r", "e", "3", "d">>
s_inplane == <<"i", "n", "p", "l", "a", "n", "e">>
s_tse == <<"t", "s", "e">>
s_fgre == <<"f", "g", "r", "e">>
s_T2 == <<"T", "2">>
s_space == <<"s", "p", "a", "c", "e">>
s_spc == <<"s", "p", "c">>
s_h2d1 == <<"h", "2", "d", "1">>
s_ASSET_calibration == <<"A", "S", "S", "E", "T", " ", "c", "a", "l", "i", "b", "r", "a", "t", "i", "o", "n">>
s_cni_ir_epi == <<"c", "n", "i", "_", "i", "r", "_", "e", "p", "i">>
s_cni_3dgrass == <<"c", "n", "i", "_", "3", "d", "g", "r", "a", "s", "s">>
s_deg == <<"d", "e", "g">>
s_cni_epi == <<"c", "n", "i", "_", "e", "p", "i">>
s_muxarcepi == <<"m", "u", "x", "a", "r", "c", "e", "p", "i">>
s_epse2d == <<"e", "p", "s", "e", "2", "d">>
s_dist == <<"d", "i", "s", "t">>
s_map == <<"m", "a", "p">>
s_field == <<"f", "i", "e", "l", "d">>
s_sbref == <<"_", "s", "b", "r", "e", "f">>
s_fm2d == <<"f", "m", "2", "d">>
s_fieldmap == <<"f", "i", "e", "l", "d", "m", "a", "p">>
s_field_map == <<"f", "i", "e", "l", "d", "_", "m", "a", "p">>
s_ep_b == <<"e", "p", "_", "b">>
s_vols == <<"v", "o", "l", "s">>
s_task_dash == <<"t", "a", "s", "k", "-">>
s_run_dash == <<"_", "r", "u", "n", "-">>
s_bold_sfx == <<"_", "b", "o", "l", "d">>

\* x in s.image_type, a tuple of flags
HasFlag(x, itype) == \E i \in 1..Len(itype) : itype[i] = x

(* The conditions of the cascade's branches, in the order of the code. *)
CondT1Highres(s) ==
    LET p == Lower(s.protocol_name)
    IN  /\ s.dim4 = 1
        /\ Contains(s_fl, s.sequence_name)
        /\ \/ Contains(s_t1, p)
           \/ (Contains(s_mp, p) /\ Contains(s_rage, p))
           \/ Contains(s_mpr, p)

CondInplane(s) ==
    /\ s.dim4 = 1
    /\ Contains(s_efgre3d, s.sequence_name)
    /\ Contains(s_inplane, Lower(s.series_description))

CondT1Fse(s) ==
    /\ s.dim4 = 1
    /\ Contains(s_t1, Lower(s.protocol_name))
    /\ Contains(s_tse, s.sequence_name)

CondScout(s) == s.sequence_name = s_fgre

CondT2Highres(s) ==
    LET p == Lower(s.protocol_name)
    IN  /\ s.dim4 = 1
        /\ \/ Contains(s_T2, s.protocol_name)
           \/ Contains(s_tse, p)
           \/ Contains(s_space, p)
           \/ Contains(s_spc, p)

CondHaste(s) == s.dim4 = 1 /\ Contains(s_h2d1, s.sequence_name)

CondPdBias(s) ==
    /\ Contains(s_ASSET_calibration, s.series_description)
    /\ Contains(s_efgre3d, s.sequence_name)

CondIr(s) == Contains(s_cni_ir_epi, s.sequence_name)

CondVfa(s) ==
    /\ Contains(s_cni_3dgrass, s.sequence_name)
    /\ Contains(s_deg, s.series_description)

CondFunc(s) ==
    /\ s.dim4 >= 4
    /\ \/ Contains(s_cni_epi, s.sequence_name)
       \/ Contains(s_muxarcepi, s.sequence_name)
    /\ ~HasFlag("DERIVED", s.image_type)

CondFmapSe(s) ==
    LET p == Lower(s.protocol_name)
    IN  /\ s.dim4 <= 3
        /\ Contains(s_epse2d, s.sequence_name)
        /\ HasFlag("M", s.image_type)
        /\ (Contains(s_dist, p) \/ Contains(s_map, p) \/ Contains(s_field, p))
        /\ ~EndsWith(Lower(s.series_description), s_sbref)

CondFmapGre(s) ==
    LET p == Lower(s.protocol_name)
    IN  /\ Contains(s_fm2d, s.sequence_name)
        /\ (Contains(s_fieldmap, p) \/ Contains(s_field_map, p))

CondDwi(s) == Contains(s_ep_b, s.sequence_name)

CondScreenSave(s) ==
    HasFlag("DERIVED", s.image_type) /\ HasFlag("SCREEN SAVE", s.image_type)

\* the branch of the first if/elif chain (T1w) the record takes
ChainT1(s) ==
    IF CondT1Highres(s) THEN "t1_highres"
    ELSE IF CondInplane(s) THEN "inplane"
    ELSE IF CondT1Fse(s) THEN "t1_fse"
    ELSE "none"

\* the branch of the second if/elif chain (T2w ... screen save) it takes
ChainT2(s) ==
    IF CondScout(s) THEN "scout"
    ELSE IF CondT2Highres(s) THEN "t2_highres"
    ELSE IF CondHaste(s) THEN "haste"
    ELSE IF CondPdBias(s) THEN "pd_bias"
    ELSE IF CondIr(s) THEN "ir"
    ELSE IF CondVfa(s) THEN "vfa"
    ELSE IF CondFunc(s) THEN "func"
    ELSE IF CondFmapSe(s) THEN "fmap_se"
    ELSE IF CondFmapGre(s) THEN "fmap_gre"
    ELSE IF CondDwi(s) THEN "dwi"
    ELSE IF CondScreenSave(s) THEN "screen_save"
    ELSE "none"

\* info[k].append(entry), k a key of info
AppendTo(d, k, entry) == SetItem(d, k, Append(GetItem(d, k), entry))

\* the loop's state: the dict, the run numbers, the exception raised ("" if
\* none) and the branches taken for the record
Raise(st, name) == [st EXCEPT !.exc = name]

\* the names direction, another_series_has_identical_start_time, t1_dicom,
\* t2_dicom and previous_series_is_sbref are bound nowhere in the module:
\* evaluating one raises NameError
UndefinedName(st) == Raise(st, "NameError")

\* the key of a functional run: 'task-%s_run-%02d_bold' % (task, run)
FuncKey(task, run) ==
    create_key("func",
               s_task_dash \o task \o s_run_dash \o Fmt02d(run) \o s_bold_sfx,
               nii_dicom)

\* run_numbers after "if run_numbers.get(task): += 1, else: = 1"
NextRunNumbers(rn, task) ==
    [t \in (DOMAIN rn) \cup {task} |->
        IF t = task
        THEN (IF task \in DOMAIN rn /\ rn[task] # 0 THEN rn[task] + 1 ELSE 1)
        ELSE rn[t]]

\* the body of the functional branch
FuncBranch(st, s) ==
    LET task == extract_task_name(s.series_description)
    IN  IF task.exc # ""
        THEN Raise(st, task.exc)
        ELSE LET rn == NextRunNumbers(st.run_numbers, task.val)
                 mykey == FuncKey(task.val, rn[task.val])
             IN  [st EXCEPT !.run_numbers = rn,
                            !.info = add_series_to_info_dict(
                                         s.series_id, mykey, st.info, <<>>)]

\* the body of the GRE field map branch
FmapGreBranch(st, s) ==
    IF Len(s.image_type) < 3
    THEN Raise(st, "IndexError")                     \* s.image_type[2]
    ELSE IF s.image_type[3] = "M"
         THEN [st EXCEPT !.info = AppendTo(@, fmap_gre_mag, [item |-> s.series_id])]
         ELSE IF s.image_type[3] = "P"
              THEN [st EXCEPT !.info = AppendTo(@, fmap_gre_phase, [item |-> s.series_id])]
              ELSE st

\* the body of the diffusion branch
DwiBranch(st, s) ==
    IF s.dim4 >= 5
    THEN LET acq == Str(s.dim4) \o s_vols
             d == AppendTo(st.info, dwi, [item |-> s.series_id, acq |-> acq])
         IN  UndefinedName([st EXCEPT !.info = d])  \* previous_series_is_sbref
    ELSE UndefinedName(st)                           \* direction

\* the first if/elif chain on record s
ApplyT1(st, s) ==
    LET b == ChainT1(s)
        st1 == IF b = "none" THEN st ELSE [st EXCEPT !.fired = Append(@, b)]
    IN  CASE b = "t1_highres" -> UndefinedName(st1)  \* direction
          [] b = "inplane" ->
                [st1 EXCEPT !.info = AppendTo(@, inplaneT1, [item |-> s.series_id])]
          [] b = "t1_fse" -> UndefinedName(st1)      \* direction
          [] OTHER -> st1

\* the second if/elif chain on record s
ApplyT2(st, s) ==
    LET b == ChainT2(s)
        st1 == IF b = "none" THEN st ELSE [st EXCEPT !.fired = Append(@, b)]
    IN  CASE b = "scout" ->
                [st1 EXCEPT !.info = AppendTo(@, t2_scout, [item |-> s.series_id])]
          [] b = "t2_highres" -> UndefinedName(st1)  \* direction
          [] b = "haste" -> UndefinedName(st1)       \* t2_dicom
          [] b = "pd_bias" ->
                [st1 EXCEPT !.info = AppendTo(@, pd_bias_receive, [item |-> s.series_id])]
          [] b = "ir" ->
                [st1 EXCEPT !.info = add_series_to_info_dict(s.series_id, ir, @, <<>>)]
          [] b = "vfa" ->
                [st1 EXCEPT !.info = add_series_to_info_dict(s.series_id, variable_fa, @, <<>>)]
          [] b = "func" -> FuncBranch(st1, s)
          [] b = "fmap_se" -> UndefinedName(st1)     \* direction
          [] b = "fmap_gre" -> FmapGreBranch(st1, s)
          [] b = "dwi" -> DwiBranch(st1, s)
          [] b = "screen_save" ->
                [st1 EXCEPT !.info = AppendTo(@, screen_save, [item |-> s.series_id])]
          [] OTHER -> st1

\* one iteration of "for idx, s in enumerate(seqinfo)"
LoopBody(d, rn, s) ==
    LET st0 == [info |-> d, run_numbers |-> rn, exc |-> "", fired |-> <<>>]
        st1 == ApplyT1(st0, s)
    IN  IF st1.exc # "" THEN st1 ELSE ApplyT2(st1, s)

\* the records infotodict is checked on: what the series is ...
d_inplane == <<"I", "n", "p", "l", "a", "n", "e">>
d_asset == <<"A", "S", "S", "E", "T", " ", "c", "a", "l", "i", "b", "r", "a", "t", "i", "o", "n">>
d_asset_inplane == <<"A", "S", "S", "E", "T", " ", "c", "a", "l", "i", "b", "r", "a", "t", "i", "o", "n", " ", "I", "n", "p", "l", "a", "n", "e">>
d_rest == <<"R", "E", "S", "T", " ", "b", "o", "l", "d">>
d_nback == <<"t", "a", "s", "k", "-", "n", "b", "a", "c", "k", "_", "1">>
d_task == <<"t", "a", "s", "k">>
d_10deg == <<"S", "P", "G", "R", " ", "1", "0", "d", "e", "g">>
p_t1 == <<"T", "1", " ", "M", "P", "R", "A", "G", "E">>
p_fieldmap == <<"f", "i", "e", "l", "d", "m", "a", "p">>
q_fl3d == <<"f", "l", "3", "d">>
q_ep_b0 == <<"e", "p", "_", "b", "0">>

it_P == <<"ORIGINAL", "PRIMARY", "P">>
it_short == <<"ORIGINAL", "PRIMARY">>
it_screen == <<"DERIVED", "SECONDARY", "SCREEN SAVE">>

Kind(prot, desc, seqname, itype, dim4) ==
    [prot |-> prot, desc |-> desc, seqname |-> seqname, itype |-> itype,
     dim4 |-> dim4]

Kinds ==
    { Kind(s_x, s_x, s_x, it_M, 1),                        \* matches nothing
      Kind(p_t1, s_x, q_fl3d, it_M, 1),                    \* high-res T1w
      Kind(s_x, d_inplane, s_efgre3d, it_M, 1),            \* inplane
      Kind(s_x, d_asset, s_efgre3d, it_M, 1),              \* coil calibration
      Kind(s_x, d_asset_inplane, s_efgre3d, it_M, 1),      \* both of them
      Kind(s_x, s_x, s_fgre, it_M, 1),                     \* scout
      Kind(s_T2, s_x, s_x, it_M, 1),                       \* high-res T2w
      Kind(s_x, s_x, s_h2d1, it_M, 1),                     \* haste
      Kind(s_x, s_x, s_cni_ir_epi, it_M, 1),               \* inversion recovery
      Kind(s_x, d_10deg, s_cni_3dgrass, it_M, 1),          \* variable flip angle
      Kind(s_x, d_rest, s_cni_epi, it_M, 4),               \* bold, task rest
      Kind(s_x, d_nback, s_muxarcepi, it_M, 4),            \* bold, task nback
      Kind(s_x, d_task, s_cni_epi, it_M, 4),               \* bold, "task" alone
      Kind(s_x, d_rest, s_cni_epi, it_screen, 4),          \* screen save
      Kind(p_fieldmap, s_x, s_epse2d, it_M, 3),            \* SE field map
      Kind(p_fieldmap, s_x, s_fm2d, it_M, 1),              \* GRE magnitude
      Kind(p_fieldmap, s_x, s_fm2d, it_P, 1),              \* GRE phase
      Kind(p_fieldmap, s_x, s_fm2d, it_short, 1),          \* GRE, two flags
      Kind(s_x, s_x, q_ep_b0, it_M, 5),                    \* diffusion
      Kind(s_x, s_x, q_ep_b0, it_M, 1) }                   \* diffusion field map

\* ... and when it was acquired
Stamp(date, time, uid) == [date |-> date, time |-> time, uid |-> uid]

Stamps ==
    { Stamp(<<>>, <<>>, <<>>),
      Stamp(<<"1">>, <<"1">>, <<"A">>),
      Stamp(<<"1">>, <<"2">>, <<"B">>) }

SeriesIds == {1, 2}

RecPool ==
    {SeqInfo(id, st.date, st.time, st.uid, k.prot, k.desc, k.seqname,
             k.itype, k.dim4) : id \in SeriesIds, st \in Stamps, k \in Kinds}

\* infotodict up to its loop: the keys, info, run_numbers and the sort
InfoStart ==
    /\ pc = "infotodict_call"
    /\ info' = InitialInfo
    /\ run_numbers' = <<>>
    /\ seqinfo' = sort_seqinfo_by_series_date_time(seqinfo_in)
    /\ idx' = 1
    /\ pc' = "infotodict_loop"
    /\ UNCHANGED <<prot_name, task_name, seqinfo_in, exc, fired, passes>>

\* one iteration of the loop; an exception ends the pass
InfoLoop ==
    /\ pc = "infotodict_loop"
    /\ idx <= Len(seqinfo)
    /\ LET st == LoopBody(info, run_numbers, seqinfo[idx])
       IN  /\ info' = st.info
           /\ run_numbers' = st.run_numbers
           /\ exc' = st.exc
           /\ fired' = Append(fired, st.fired)
           /\ pc' = IF st.exc = "" THEN "infotodict_loop" ELSE "infotodict_raised"
    /\ idx' = idx + 1
    /\ UNCHANGED <<prot_name, task_name, seqinfo_in, seqinfo, passes>>

\* after the loop: the cleanup and the return
InfoReturn ==
    /\ pc = "infotodict_loop"
    /\ idx > Len(seqinfo)
    /\ info' = clean_up_unneeded_tags_from_info(info)
    /\ pc' = "infotodict_returned"
    /\ UNCHANGED <<prot_name, task_name, seqinfo_in, seqinfo, idx,
                   run_numbers, exc, fired, passes>>

Init ==
    /\ pc = "infotodict_call"
    /\ seqinfo_in \in Lists(RecPool, MaxRecs)
    /\ seqinfo = <<>>
    /\ idx = 0
    /\ info = <<>>
    /\ run_numbers = <<>>
    /\ exc = ""
    /\ fired = <<>>
    /\ prot_name = <<>>
    /\ task_name = NoTask
    /\ passes = <<>>

Next == InfoStart \/ InfoLoop \/ InfoReturn

Spec == Init /\ [][Next]_vars

----------------------------------------------------------------------------
(* Properties of sort_seqinfo_by_series_date_time, under SpecSort *)

Complete(r) == r.date # <<>> /\ r.time # <<>>

DateTime(r) == r.date \o r.time

\* C3: in the sorted list, the records that have both date and time are in
\* ascending order of date+time, and among those of one date+time the
\* records that have a series_uid are in ascending order of series_uid.
C3_SortedByDateTimeThenUid ==
    pc = "sort_done" =>
        \A i, j \in 1..Len(seqinfo) :
            (i < j /\ Complete(seqinfo[i]) /\ Complete(seqinfo[j])) =>
                /\ ~StrLess(DateTime(seqinfo[j]), DateTime(seqinfo[i]))
                /\ ( /\ DateTime(seqinfo[i]) = DateTime(seqinfo[j])
                     /\ seqinfo[i].series_uid # <<>>
                     /\ seqinfo[j].series_uid # <<>> )
                   => ~StrLess(seqinfo[j].series_uid, seqinfo[i].series_uid)

\* a sorted input that came with a later date+time first and, at one
\* date+time, with uid "B" before uid "A"
C3_Witness ==
    /\ pc = "sort_done"
    /\ \E i, j \in 1..Len(seqinfo_in) :
          /\ i < j
          /\ Complete(seqinfo_in[i]) /\ Complete(seqinfo_in[j])
          /\ StrLess(DateTime(seqinfo_in[j]), DateTime(seqinfo_in[i]))
    /\ \E i, j \in 1..Len(seqinfo_in) :
          /\ i < j
          /\ Complete(seqinfo_in[i]) /\ Complete(seqinfo_in[j])
          /\ DateTime(seqinfo_in[i]) = DateTime(seqinfo_in[j])
          /\ seqinfo_in[i].series_uid = <<"B">>
          /\ seqinfo_in[j].series_uid = <<"A">>

\* C4 as claimed: a record with neither date nor time comes after every
\* record that has a date or a time.
C4_NeitherAfterAnyTemporal ==
    pc = "sort_done" =>
        \A i, j \in 1..Len(seqinfo) :
            ( /\ seqinfo[i].date = <<>> /\ seqinfo[i].time = <<>>
              /\ (seqinfo[j].date # <<>> \/ seqinfo[j].time # <<>>) )
            => j < i

\* C4 as amended: a record that lacks its date or its time comes after
\* every record that has both.
C4_IncompleteAfterComplete ==
    pc = "sort_done" =>
        \A i, j \in 1..Len(seqinfo) :
            (~Complete(seqinfo[i]) /\ Complete(seqinfo[j])) => j < i

\* a sorted input that came with a record without date and time, then one
\* with a date only, then one with both
C4_Witness ==
    /\ pc = "sort_done"
    /\ \E i, j, k \in 1..Len(seqinfo_in) :
          /\ i < j /\ j < k
          /\ seqinfo_in[i].date = <<>> /\ seqinfo_in[i].time = <<>>
          /\ seqinfo_in[j].date # <<>> /\ seqinfo_in[j].time = <<>>
          /\ Complete(seqinfo_in[k])
    /\ Complete(seqinfo[1])

Count(r, l) == Cardinality({i \in 1..Len(l) : l[i] = r})

\* C9: the sorted list is a permutation of the input: as long, and holding
\* each record as often as the input does.
C9_SortIsPermutation ==
    pc = "sort_done" =>
        /\ Len(seqinfo) = Len(seqinfo_in)
        /\ \A i \in 1..Len(seqinfo_in) :
              Count(seqinfo_in[i], seqinfo) = Count(seqinfo_in[i], seqinfo_in)

----------------------------------------------------------------------------
(* Properties of extract_task_name, under SpecTask *)

\* C7: extract_task_name returns for every input, and what it returns is
\* not empty and holds no space, '-' or '_'.
C7_TaskNameTotalNonEmpty ==
    pc # "task_call" =>
        /\ pc = "task_returned"
        /\ task_name.val # <<>>
        /\ \A i \in 1..Len(task_name.val) :
              task_name.val[i] \notin {" ", "-", "_"}

----------------------------------------------------------------------------
(* Properties of clean_up_unneeded_tags_from_info, under SpecCleanup *)

Erased(k, old) == [k EXCEPT !.template = Replace(@, old, <<>>)]

\* C2: a second cleanup changes neither the keys nor any key's list.
C2_CleanupIdempotent ==
    Len(passes) >= 3 => AsMapping(passes[3]) = AsMapping(passes[2])

\* C5: a key with the run placeholder and a one-element list is gone after
\* the cleanup, and the key with the placeholder erased holds that list.
C5_SingleRunCollapses ==
    Len(passes) >= 2 =>
        \A i \in 1..Len(passes[1]) :
            LET e == passes[1][i]
            IN  (Len(e.val) = 1 /\ Contains(s_run_item, e.key.template)) =>
                    /\ ~HasKey(passes[2], e.key)
                    /\ HasKey(passes[2], Erased(e.key, s_run_item))
                    /\ GetItem(passes[2], Erased(e.key, s_run_item)) = e.val

\* C10: a key whose list has no or several elements is still in the map
\* after the cleanup, with the same template and the same list.
C10_OnlySingletonsRewritten ==
    Len(passes) >= 2 =>
        \A i \in 1..Len(passes[1]) :
            LET e == passes[1][i]
            IN  Len(e.val) # 1 =>
                    /\ HasKey(passes[2], e.key)
                    /\ GetItem(passes[2], e.key) = e.val

\* the number of keys of d that hold the list v
KeysWithVal(d, v) == Cardinality({i \in 1..Len(d) : d[i].val = v})

\* C11: the cleanup loses no assignment: the map has as many keys after the
\* cleanup as before it, and every assignment list is held by as many keys
\* after the cleanup as before it (no rewritten key overwrites another key).
C11_CleanupLosesNothing ==
    Len(passes) >= 2 =>
        /\ Len(passes[2]) = Len(passes[1])
        /\ \A v \in CleanVals :
              KeysWithVal(passes[2], v) = KeysWithVal(passes[1], v)

----------------------------------------------------------------------------
(* Properties of infotodict, under Spec *)

\* the series_ids of the input tell its records apart
DistinctIds ==
    \A i, j \in 1..Len(seqinfo_in) :
        seqinfo_in[i].series_id = seqinfo_in[j].series_id => i = j

\* the keys of info whose list holds series_id id
KeysHolding(id) ==
    {info[i].key : i \in {n \in 1..Len(info) :
        \E m \in 1..Len(info[n].val) : info[n].val[m].item = id}}

\* C1: in a pass that returns, at most one branch of the cascade fired for
\* each record, and each record's series_id is under at most one key of the
\* returned map.
C1_MutuallyExclusive ==
    (pc = "infotodict_returned" /\ DistinctIds) =>
        /\ \A i \in 1..Len(fired) : Len(fired[i]) <= 1
        /\ \A i \in 1..Len(seqinfo_in) :
              Cardinality(KeysHolding(seqinfo_in[i].series_id)) <= 1

\* C6: the pass never raises.
C6_InfotodictTotal == pc # "infotodict_raised" /\ exc = ""

IsFunc(s) == ChainT1(s) = "none" /\ ChainT2(s) = "func"

TaskOf(s) == extract_task_name(s.series_description).val

\* the functional records of task T in l, in l's order
FuncOf(l, T) ==
    LET Is(s) == IsFunc(s) /\ TaskOf(s) = T
    IN  SelectSeq(l, Is)

FuncTasks == {TaskOf(seqinfo_in[i]) : i \in {n \in 1..Len(seqinfo_in) : IsFunc(seqinfo_in[n])}}

\* 'task-%s_bold' % task: the key of a task's only run
FuncKeyNoRun(T) == create_key("func", s_task_dash \o T \o s_bold_sfx, nii_dicom)

\* the func keys of task T in info
FuncKeysIn(T) ==
    LET pre == <<"{bids_subject_session_dir}/", "func",
                 "/{bids_subject_session_prefix}", "_">>
               \o s_task_dash \o T \o <<"_">>
    IN  {info[i].key : i \in {n \in 1..Len(info) :
            /\ Len(info[n].key.template) >= Len(pre)
            /\ SubSeq(info[n].key.template, 1, Len(pre)) = pre}}

\* C8: in a pass that returns, a task with n functional records has the
\* keys run-01..run-n when n >= 2 and one key without run tag when n = 1,
\* and the key of run k holds just the task's k-th functional record of the
\* sorted list.
C8_FuncRunsNumbered ==
    (pc = "infotodict_returned" /\ DistinctIds) =>
        \A T \in FuncTasks :
            LET n == Len(FuncOf(seqinfo_in, T))
                sf == FuncOf(seqinfo, T)
                KeyOf(k) == IF n = 1 THEN FuncKeyNoRun(T) ELSE FuncKey(T, k)
            IN  /\ Len(sf) = n
                /\ FuncKeysIn(T) = {KeyOf(k) : k \in 1..n}
                /\ \A k \in 1..n :
                      GetItem(info, KeyOf(k)) = <<[item |-> sf[k].series_id]>>

====
